---- MODULE Spec2Model ----
(***************************************************************************)
(* Model of SOC.py: the SOCBoard register session (text-framed GAPI        *)
(* protocol over UDP), its message codec, the board-info bitfield decoder  *)
(* and the discover_boards scan.                                           *)
(*                                                                         *)
(* Python strings and datagrams are sequences of one-character strings.    *)
(***************************************************************************)
EXTENDS Integers, Sequences, FiniteSets, TLC

VARIABLES
    response,          \* codec: the raw reply handed to _parse_udp_response
    expected,          \* codec: <<expected_register_space, expected_register_address>>
    parsed,            \* codec: what _parse_udp_response did with it
    info,              \* decoder: the capability word handed to _parse_board_info
    board_info,        \* decoder: the attributes it set, or the exception it raised
    rxq,               \* session: datagrams waiting on self.socket, oldest first
    call,              \* session: the last register operation and its outcome
    pc,                \* discovery: position inside discover_boards
    send_sock,         \* discovery: state of send_sock
    receive_sock,      \* discovery: state of receive_sock
    discovered_boards, \* discovery: the list being accumulated
    bound1240,         \* discovery: session sockets of this process bound to port 1240
    now,               \* discovery: time.time(), in ticks
    start_time,        \* discovery: start_time
    heard,             \* discovery: datagrams received so far, with what each led to
    wire,              \* discovery: datagrams sent so far, in order
    exc,               \* discovery: the exception raised inside the try block, if any
    returned           \* discovery: what the call gave back to its caller

codecVars == <<response, expected, parsed>>
infoVars == <<info, board_info>>
sessionVars == <<rxq, call>>
discoveryVars == <<pc, send_sock, receive_sock, discovered_boards, bound1240, now,
                   start_time, heard, wire, exc, returned>>
vars == <<response, expected, parsed, info, board_info, rxq, call, pc, send_sock,
          receive_sock, discovered_boards, bound1240, now, start_time, heard, wire,
          exc, returned>>

----------------------------------------------------------------------------
(* Characters and Python string primitives                                 *)

NUL == "NUL"      \* the "\0" character
BadByte == "xFF"  \* a byte that is not valid UTF-8
CR == "\r"
LF == "\n"
SP == " "

Range(s) == {s[i] : i \in 1..Len(s)}

UpperHex == <<"0", "1", "2", "3", "4", "5", "6", "7", "8", "9", "A", "B", "C", "D", "E", "F">>
LowerHex == <<"0", "1", "2", "3", "4", "5", "6", "7", "8", "9", "a", "b", "c", "d", "e", "f">>

\* str.isdigit's characters, within the model's alphabet
DecDigits == {UpperHex[i] : i \in 1..10}
\* string.hexdigits
hexdigits == Range(UpperHex) \cup Range(LowerHex)
\* the characters str.split() and str.strip() treat as whitespace
Whitespace == {SP, "\t", LF, CR}

DigitValue(c) ==
    IF c \in Range(UpperHex)
    THEN (CHOOSE i \in 1..16 : UpperHex[i] = c) - 1
    ELSE (CHOOSE i \in 1..16 : LowerHex[i] = c) - 1

RECURSIVE ToHex(_)
ToHex(n) == IF n < 16 THEN <<UpperHex[n + 1]>>
            ELSE ToHex(n \div 16) \o <<UpperHex[(n % 16) + 1]>>

RECURSIVE ZeroPad(_, _)
ZeroPad(s, width) == IF Len(s) >= width THEN s ELSE ZeroPad(<<"0">> \o s, width)

\* f"{n:02X}"
Hex2(n) == ZeroPad(ToHex(n), 2)
\* f"{n:04X}"
Hex4(n) == ZeroPad(ToHex(n), 4)

RECURSIVE lstrip(_, _)
lstrip(s, chars) == IF s # <<>> /\ Head(s) \in chars THEN lstrip(Tail(s), chars) ELSE s

RECURSIVE rstrip(_, _)
rstrip(s, chars) ==
    IF s # <<>> /\ s[Len(s)] \in chars THEN rstrip(SubSeq(s, 1, Len(s) - 1), chars) ELSE s

\* str.strip(chars)
strip(s, chars) == rstrip(lstrip(s, chars), chars)

RECURSIVE SplitFrom(_, _, _)
SplitFrom(s, token, parts) ==
    IF s = <<>>
    THEN IF token = <<>> THEN parts ELSE Append(parts, token)
    ELSE IF Head(s) \in Whitespace
         THEN SplitFrom(Tail(s), <<>>, IF token = <<>> THEN parts ELSE Append(parts, token))
         ELSE SplitFrom(Tail(s), Append(token, Head(s)), parts)

\* str.split() with no separator
split(s) == SplitFrom(s, <<>>, <<>>)

\* needle in haystack, for strings
Contains(haystack, needle) ==
    \E i \in 1..(Len(haystack) - Len(needle) + 1) :
        SubSeq(haystack, i, i + Len(needle) - 1) = needle

\* str.isdigit
isdigit(s) == s # <<>> /\ \A i \in 1..Len(s) : s[i] \in DecDigits

RECURSIVE ParseInt(_, _)
\* int(s, base) for a string of digits of that base
ParseInt(s, base) ==
    IF s = <<>> THEN 0
    ELSE ParseInt(SubSeq(s, 1, Len(s) - 1), base) * base + DigitValue(s[Len(s)])

\* bytes.decode(): fails on a byte sequence that is not UTF-8
Decodable(data) == BadByte \notin Range(data)

----------------------------------------------------------------------------
(* Message Codec                                                           *)

GAPI == <<"G", "A", "P", "I">>

\* _create_udp_message
create_udp_message(register_space, command, register_address, value) ==
    <<"{">> \o GAPI \o <<SP>> \o Hex2(register_space) \o <<SP, "2", SP, command, SP>>
        \o Hex2(register_address) \o <<SP>> \o Hex4(value) \o <<"}", NUL>>

Raise(exception) == [kind |-> "raise", val |-> exception]
ReturnInt(n) == [kind |-> "int", val |-> n]
ReturnStr(s) == [kind |-> "str", val |-> s]
ReturnNone == [kind |-> "none", val |-> 0]

\* _parse_udp_response
parse_udp_response(resp, expected_register_space, expected_register_address) ==
    LET parts == split(strip(resp, {"{", "}", NUL})) IN
    IF \/ Len(parts) # 5
       \/ ~Contains(parts[1], GAPI)
       \/ parts[2] # Hex2(expected_register_space)
       \/ parts[3] # <<"1">>
       \/ parts[4] # Hex2(expected_register_address)
    THEN Raise("InvalidResponseError")
    ELSE LET processed_response == SubSeq(parts[5], 1, Len(parts[5]) - 1) IN
         IF isdigit(processed_response)
         THEN ReturnInt(ParseInt(processed_response, 10))
         ELSE IF \A i \in 1..Len(processed_response) : processed_response[i] \in hexdigits
              THEN IF processed_response = <<>>
                   THEN Raise("ValueError")
                   ELSE ReturnInt(ParseInt(processed_response, 16))
              ELSE ReturnStr(processed_response)

----------------------------------------------------------------------------
(* Inputs of the codec: replies a board, or anything else on the segment,  *)
(* can put on the wire                                                     *)

\* register values used as samples of 0..65535: 0x0000, 0x0009, 0x0123, 0x0AB0,
\* 0x0AB1, 0x0ABC, 0x1000, 0xFFFF
Values == {0, 9, 291, 2736, 2737, 2748, 4096, 65535}
\* register spaces and addresses used as samples of 0..255 (0x97, 0x98, 0xB0)
Spaces == {0, 1, 255}
Addresses == {151, 152, 176}

RECURSIVE Join(_)
\* " ".join(tokens)
Join(tokens) ==
    IF tokens = <<>> THEN <<>>
    ELSE IF Len(tokens) = 1 THEN tokens[1]
         ELSE tokens[1] \o <<SP>> \o Join(Tail(tokens))

\* "{" tokens separated by blanks "}" and whatever ends the datagram
Frame(tokens, tail) == <<"{">> \o Join(tokens) \o <<"}">> \o tail

\* the reply {GAPI SS 1 AA VVVV} that echoes a request for (space, address) with value
Echo(space, address, value) == Frame(<<GAPI, Hex2(space), <<"1">>, Hex2(address), Hex4(value)>>, <<>>)

FirstTokens == {GAPI, <<"X">> \o GAPI, <<"B", "E", "A", "T">>}
LenFields == {<<"1">>, <<"2">>}
ValueTokens == {Hex4(v) : v \in Values} \cup {<<"Z", "Z", "Z", "Z">>, <<"A">>, <<"0", "a", "b", "c">>}
Tails == {<<>>, <<NUL>>, <<CR, LF>>}

FiveTokenResponses ==
    {Frame(<<lit, Hex2(s), lf, Hex2(a), v>>, tail) :
        lit \in FirstTokens, s \in {0, 1}, lf \in LenFields, a \in {151, 152},
        v \in ValueTokens, tail \in Tails}

OtherResponses ==
    {<<>>,
     Frame(<<GAPI, Hex2(1), <<"1">>, Hex2(151)>>, <<>>),
     Frame(<<GAPI, Hex2(1), <<"1">>, Hex2(151), Hex4(2748), Hex4(0)>>, <<>>),
     create_udp_message(1, "R", 151, 0)}
    \cup {Echo(s, a, 2748) : s \in Spaces, a \in Addresses}

Responses == FiveTokenResponses \cup OtherResponses

Pending == [kind |-> "pending", val |-> 0]

----------------------------------------------------------------------------
(* Board Info Decoder                                                      *)

board_type_table == <<"Neither", "Encoder", "Decoder", "Both">>
codec_table == <<"MPEG2", "H264", "H265", "Reserved">>
fps_table == <<"Up to 30", "Up to 60", "Up to 120", "Other">>
resolution_table == <<"Up to 1080p", "Up to 4K", "Up to 8K", "Other">>
module_fpga_table == <<"None", "Artix", "Zynq", "Arria10", "Reserved">>
board_name_table == <<"S1000", "VTR4000C", "VoIP-X", "VoIP-I", "Reserved">>

\* (word >> shift) & (2^width - 1)
Bits(word, shift, width) == (word \div (2 ^ shift)) % (2 ^ width)

\* a Python list subscript: table[index]
InTable(table, index) == index + 1 \in 1..Len(table)

\* no clamp: the second argument as it is
NoClamp(a, b) == b

Min(a, b) == IF a < b THEN a ELSE b

\* _parse_board_info: the attributes it sets, or the IndexError of the first
\* subscript that is out of range
parse_board_info(word) ==
    IF ~InTable(board_type_table, Bits(word, 0, 2)) THEN Raise("IndexError")
    ELSE IF ~InTable(codec_table, Bits(word, 3, 3)) THEN Raise("IndexError")
    ELSE IF ~InTable(fps_table, Bits(word, 7, 2)) THEN Raise("IndexError")
    ELSE IF ~InTable(resolution_table, Bits(word, 9, 2)) THEN Raise("IndexError")
    ELSE IF ~InTable(module_fpga_table, Bits(word, 11, 3)) THEN Raise("IndexError")
    ELSE IF ~InTable(board_name_table, Bits(word, 20, 5)) THEN Raise("IndexError")
    ELSE [kind |-> "attrs",
          val |-> [board_type |-> board_type_table[Bits(word, 0, 2) + 1],
                   has_audio |-> Bits(word, 2, 1) # 0,
                   codec |-> codec_table[Bits(word, 3, 3) + 1],
                   precision |-> IF Bits(word, 6, 1) # 0 THEN "10 Bits" ELSE "8 Bits",
                   fps |-> fps_table[Bits(word, 7, 2) + 1],
                   resolution |-> resolution_table[Bits(word, 9, 2) + 1],
                   module_fpga |-> module_fpga_table[Bits(word, 11, 3) + 1],
                   channels |-> Min(62, Bits(word, 14, 6)),
                   board_name |-> board_name_table[Bits(word, 20, 5) + 1]]]

\* capability words used as samples of the 32-bit words: every value of the
\* codec and module_fpga fields, board names on both sides of the table's end,
\* channel fields 0, 1, 62 and 63, two board types, with and without bits above 24
\* (bits 25..30: TLC's integers end at 2^31 - 1)
InfoWords ==
    {bt + (c * 8) + (m * 2048) + (ch * 16384) + (n * 1048576) + (hi * 33554432) :
        bt \in {1, 2}, c \in 0..7, m \in 0..7, ch \in {0, 1, 62, 63},
        n \in {0, 3, 4, 5, 31}, hi \in {0, 63}}

----------------------------------------------------------------------------
(* States in which a component is not in use                                *)

\* what stands for "the board sent nothing" where a datagram is expected
NoReply == <<"no reply">>

NoCall == [op |-> "none", space |-> 0, address |-> 0, value |-> 0, verify |-> FALSE,
           sendto |-> 0, sent |-> <<>>, answer |-> NoReply, received |-> <<>>,
           unread |-> FALSE, stale |-> FALSE, outcome |-> Pending, report |-> <<>>]

CodecIdle == response = <<>> /\ expected = <<0, 0>> /\ parsed = Pending
InfoIdle == info = 0 /\ board_info = Pending
SessionIdle == rxq = <<>> /\ call = NoCall
DiscoveryIdle ==
    /\ pc = "idle"
    /\ send_sock = "none"
    /\ receive_sock = "none"
    /\ discovered_boards = <<>>
    /\ bound1240 = 0
    /\ now = 0
    /\ start_time = 0
    /\ heard = <<>>
    /\ wire = <<>>
    /\ exc = [type |-> "none", at |-> "none", boards |-> <<>>]
    /\ returned = <<>>

----------------------------------------------------------------------------
(* The codec applied to one reply                                          *)

InitCodec ==
    /\ response \in Responses
    /\ expected \in {0, 1} \X {151, 152}
    /\ parsed = Pending
    /\ InfoIdle /\ SessionIdle /\ DiscoveryIdle

ParseResponse ==
    /\ parsed = Pending
    /\ parsed' = parse_udp_response(response, expected[1], expected[2])
    /\ UNCHANGED <<response, expected, infoVars, sessionVars, discoveryVars>>

NextCodec == ParseResponse

SpecCodec == InitCodec /\ [][NextCodec]_vars

----------------------------------------------------------------------------
(* The decoder applied to one capability word                              *)

InitInfo ==
    /\ info \in InfoWords
    /\ board_info = Pending
    /\ CodecIdle /\ SessionIdle /\ DiscoveryIdle

ParseBoardInfo ==
    /\ board_info = Pending
    /\ board_info' = parse_board_info(info)
    /\ UNCHANGED <<info, codecVars, sessionVars, discoveryVars>>

NextInfo == ParseBoardInfo

SpecInfo == InitInfo /\ [][NextInfo]_vars

----------------------------------------------------------------------------
(* Register Session: one SOCBoard and the board it talks to                *)

\* datagrams the session socket's receive buffer holds before it drops new ones
MaxQueue == 1

\* the (space, address) pair and the values the caller uses: (0x01, 0x97);
\* 0x0000, 0x0AB0
Registers == {<<1, 151>>}
WriteValues == {0, 2736}
\* values a board answers with: 0x0000, 0x0AB0, 0x0AB1
ReplyValues == {0, 2736, 2737}

\* what may arrive on the session socket after a request for (space, address):
\* a well-formed echo, an echo of the next address, a reply with another first
\* token, one whose value is not hexadecimal, bytes that are not text, or nothing
BoardReplies(space, address) ==
    {Echo(space, address, v) : v \in ReplyValues}
    \cup {Echo(space, address + 1, 2736),
          Frame(<<<<"X">> \o GAPI, Hex2(space), <<"1">>, Hex2(address), Hex4(2736)>>, <<>>),
          Frame(<<GAPI, Hex2(space), <<"1">>, Hex2(address), <<"Z", "Z", "Z", "Z">>>>, <<>>),
          <<BadByte>>,
          NoReply}

\* how one exchange can go: <<sendto succeeds, what the board answers, recvfrom
\* fails at socket level>>; a request that was not sent gets no answer, and
\* recvfrom fails at socket level when the board is not there to answer
Exchanges(space, address) ==
    {<<FALSE, NoReply, FALSE>>, <<TRUE, NoReply, TRUE>>}
    \cup {<<TRUE, answer, FALSE>> : answer \in BoardReplies(space, address)}

\* the kernel queues an arriving datagram unless the receive buffer is full
Deliver(q, datagram) ==
    IF datagram # NoReply /\ Len(q) < MaxQueue THEN Append(q, datagram) ELSE q

Delivered(q, datagram) == datagram # NoReply /\ Len(q) < MaxQueue

\* _send_udp_message, given whether sendto succeeds
send_udp_message(message, sendto_ok) ==
    IF sendto_ok THEN ReturnNone ELSE Raise("CommunicationError")

\* _receive_udp_message on a socket whose queue is q, given whether recvfrom
\* fails at socket level; an empty queue is a receive timeout
receive_udp_message(q, socket_error) ==
    IF socket_error THEN [result |-> Raise("CommunicationError"), data |-> <<>>, rest |-> q]
    ELSE IF q = <<>> THEN [result |-> Raise("CommunicationError"), data |-> <<>>, rest |-> q]
    ELSE IF ~Decodable(Head(q))
         THEN [result |-> Raise("UnicodeDecodeError"), data |-> <<Head(q)>>, rest |-> Tail(q)]
         ELSE [result |-> ReturnStr(Head(q)), data |-> <<Head(q)>>, rest |-> Tail(q)]

\* an exchange that sends the request again when the receive fails
ExchangeWithRetry(op, command, space, address, value, verify, sendto_ok, answer, socket_error, q) ==
    LET message == create_udp_message(space, command, address, value)
        sending == send_udp_message(message, sendto_ok)
        q1 == Deliver(q, answer)
        rcv == receive_udp_message(q1, socket_error)
        retried == rcv.result.kind = "raise"
        base == [op |-> op, space |-> space, address |-> address, value |-> value,
                 verify |-> verify, sendto |-> 1, sent |-> <<>>, answer |-> NoReply,
                 received |-> <<>>, unread |-> FALSE, stale |-> FALSE, outcome |-> Pending,
                 report |-> <<>>]
    IN IF sending.kind = "raise"
       THEN [call |-> [base EXCEPT !.outcome = sending], rxq |-> q]
       ELSE [call |-> [base EXCEPT !.sendto = IF retried THEN 2 ELSE 1,
                                   !.sent = IF retried THEN <<message, message>> ELSE <<message>>,
                                   !.answer = answer,
                                   !.received = rcv.data,
                                   !.unread = Delivered(q, answer) /\ (q # <<>> \/ rcv.data = <<>>),
                                   !.stale = q # <<>> /\ rcv.data # <<>>,
                                   !.outcome = IF rcv.result.kind = "raise" THEN rcv.result
                                               ELSE parse_udp_response(Head(rcv.data), space, address)],
             rxq |-> rcv.rest]

\* send one request, then block for one datagram and parse it: lines 79-82 and
\* 92-95. The board's answer reaches the socket between the two.
Exchange(op, command, space, address, value, verify, sendto_ok, answer, socket_error, q) ==
    LET message == create_udp_message(space, command, address, value)
        sending == send_udp_message(message, sendto_ok)
        q1 == Deliver(q, answer)
        rcv == receive_udp_message(q1, socket_error)
        \* sendto: calls of socket.sendto; sent: the datagrams it accepted;
        \* received: the datagrams recvfrom returned; unread: the board's answer to
        \* this request is still queued; stale: the datagram received was queued
        \* before this request was sent
        base == [op |-> op, space |-> space, address |-> address, value |-> value,
                 verify |-> verify, sendto |-> 1, sent |-> <<>>, answer |-> NoReply,
                 received |-> <<>>, unread |-> FALSE, stale |-> FALSE, outcome |-> Pending,
                 report |-> <<>>]
    IN IF sending.kind = "raise"
       THEN [call |-> [base EXCEPT !.outcome = sending], rxq |-> q]
       ELSE [call |-> [base EXCEPT !.sent = <<message>>,
                                   !.answer = answer,
                                   !.received = rcv.data,
                                   !.unread = Delivered(q, answer) /\ (q # <<>> \/ rcv.data = <<>>),
                                   !.stale = q # <<>> /\ rcv.data # <<>>,
                                   !.outcome = IF rcv.result.kind = "raise" THEN rcv.result
                                               ELSE parse_udp_response(Head(rcv.data), space, address)],
             rxq |-> rcv.rest]

\* read_register
read_register(space, address, sendto_ok, answer, socket_error, q) ==
    Exchange("read_register", "R", space, address, 0, FALSE, sendto_ok, answer, socket_error, q)

\* verified_write_register, called directly (op) or through write_register
verified_write_register(op, space, address, value, sendto_ok, answer, socket_error, q) ==
    LET x == Exchange(op, "V", space, address, value, op = "write_register",
                      sendto_ok, answer, socket_error, q)
        read_value == x.call.outcome
    IN IF read_value.kind = "raise" THEN x
       ELSE IF read_value.kind = "int" /\ read_value.val = value THEN x
       ELSE IF read_value.kind = "str"
            \* the message's {read_value:04X} cannot format a string
            THEN [x EXCEPT !.call.outcome = Raise("ValueError")]
            ELSE [x EXCEPT !.call.outcome = Raise("WriteVerificationError"),
                           !.call.report = <<Hex4(value), Hex4(read_value.val)>>]

\* write_register
write_register(space, address, value, verify, sendto_ok, answer, socket_error, q) ==
    IF verify
    THEN verified_write_register("write_register", space, address, value,
                                 sendto_ok, answer, socket_error, q)
    ELSE LET message == create_udp_message(space, "W", address, value)
             sending == send_udp_message(message, sendto_ok)
             base == [op |-> "write_register", space |-> space, address |-> address,
                      value |-> value, verify |-> FALSE, sendto |-> 1, sent |-> <<>>,
                      answer |-> NoReply, received |-> <<>>, unread |-> FALSE,
                      stale |-> FALSE, outcome |-> sending, report |-> <<>>]
         IN IF sending.kind = "raise"
            THEN [call |-> base, rxq |-> q]
            ELSE [call |-> [base EXCEPT !.sent = <<message>>,
                                        !.answer = answer,
                                        !.unread = Delivered(q, answer)],
                  rxq |-> Deliver(q, answer)]

InitSession ==
    /\ rxq = <<>>
    /\ call = NoCall
    /\ CodecIdle /\ InfoIdle /\ DiscoveryIdle

ReadRegister ==
    \E r \in Registers :
    \E e \in Exchanges(r[1], r[2]) :
        LET x == read_register(r[1], r[2], e[1], e[2], e[3], rxq)
        IN /\ call' = x.call
           /\ rxq' = x.rxq
           /\ UNCHANGED <<codecVars, infoVars, discoveryVars>>

WriteRegister ==
    \E r \in Registers, value \in WriteValues, verify \in BOOLEAN :
    \E e \in Exchanges(r[1], r[2]) :
        LET x == write_register(r[1], r[2], value, verify, e[1], e[2], e[3], rxq)
        IN /\ call' = x.call
           /\ rxq' = x.rxq
           /\ UNCHANGED <<codecVars, infoVars, discoveryVars>>

VerifiedWriteRegister ==
    \E r \in Registers, value \in WriteValues :
    \E e \in Exchanges(r[1], r[2]) :
        LET x == verified_write_register("verified_write_register", r[1], r[2], value,
                                         e[1], e[2], e[3], rxq)
        IN /\ call' = x.call
           /\ rxq' = x.rxq
           /\ UNCHANGED <<codecVars, infoVars, discoveryVars>>

NextSession == ReadRegister \/ WriteRegister \/ VerifiedWriteRegister

SpecSession == InitSession /\ [][NextSession]_vars

----------------------------------------------------------------------------
(* Discovery: SOCBoard.discover_boards                                     *)

\* the default of discover_boards' timeout parameter, in seconds: the listening
\* budget and the receive socket's timeout alike
timeout == 5
\* SOCBoard.udp_port and ENABLE_HEARTBEAT_PORT
udp_port == 1240
HEARTBEAT_RESPONSE_PORT == 1270
\* datagrams one scan receives at most
MaxDatagrams == 3

multicast_group == "239.255.255.1"
BoardAddrs == {"10.0.0.1", "10.0.0.2"}

BEAT == <<"{", "B", "E", "A", "T">>

\* b"{GAPI 00 2 W B0 1234}\0"
EnableMessage ==
    <<"{", "G", "A", "P", "I", SP, "0", "0", SP, "2", SP, "W", SP, "B", "0", SP,
      "1", "2", "3", "4", "}", NUL>>

\* a beacon whose last token is the capability word, as six hex digits
Beacon(word) == BEAT \o <<SP>> \o ZeroPad(ToHex(word), 6) \o <<"}">>

\* what can arrive on the heartbeat response port: beacons with capability
\* words 0x000001, 0x0FC001 (63 channels) and 0x000021, a beacon ended by CR LF,
\* a beacon with no capability word, a reply that is no beacon, an empty and a
\* blank datagram, bytes that are not text
Heartbeats ==
    {Beacon(1), Beacon(1032193), Beacon(33),
     Beacon(1) \o <<CR, LF>>,
     BEAT \o <<"}">>,
     Echo(0, 176, 17185),
     <<>>,
     <<SP>>,
     <<BadByte>>}

\* seconds a recvfrom that delivers a datagram may have blocked
Waits == {0, 2}
\* seconds of time.time() that pass while a recvfrom times out: the socket
\* timeout runs on the monotonic clock, time.time() is the wall clock
TimeoutWaits == {timeout - 1, timeout}

NoException == [type |-> "none", at |-> "none", boards |-> <<>>]
Exception(type, at, boards) == [type |-> type, at |-> at, boards |-> boards]

\* the characters int(dat, 16) accepts, signs, prefix and underscores aside
IsHex(s) == s # <<>> /\ \A i \in 1..Len(s) : s[i] \in hexdigits

\* as if the session socket were bound with SO_REUSEADDR: bind never fails
BindAlwaysSucceeds(bound) == FALSE

\* SOCBoard.__init__: bind(('', 1240)) fails while another socket of the
\* process is bound to the port (no SO_REUSEADDR is set)
BindFails(bound) == bound > 0

\* lines 126-138: what one received datagram does to the scan
handle_datagram(data, addr, sendto_ok, boards, bound, sent) ==
    LET same == [boards |-> boards, bound |-> bound, wire |-> sent, exc |-> NoException,
                 led_to |-> "ignored"]
    IN
    IF ~Decodable(data)
    THEN [same EXCEPT !.exc = Exception("UnicodeDecodeError", "decode", boards),
                      !.led_to = "exception"]
    ELSE LET parts == split(strip(data, {"{", "}", CR, LF, SP})) IN
    IF parts = <<>>
    THEN [same EXCEPT !.exc = Exception("IndexError", "decode", boards),
                      !.led_to = "exception"]
    ELSE LET dat == parts[Len(parts)] IN
    IF ~Contains(data, BEAT)
    THEN same
    ELSE IF BindFails(bound)
    THEN [same EXCEPT !.exc = Exception("OSError", "construct", boards),
                      !.led_to = "exception"]
    ELSE IF ~IsHex(dat)
    THEN [same EXCEPT !.bound = bound + 1,
                      !.exc = Exception("ValueError", "parse", boards),
                      !.led_to = "exception"]
    ELSE LET attrs == parse_board_info(ParseInt(dat, 16)) IN
    IF attrs.kind = "raise"
    THEN [same EXCEPT !.bound = bound + 1,
                      !.exc = Exception(attrs.val, "parse", boards),
                      !.led_to = "exception"]
    ELSE LET board == [ip_address |-> addr, info |-> attrs.val]
             appended == Append(boards, board)
             \* _turn_off_heartbeat
             off == write_register(0, 176, 17185, FALSE, sendto_ok, NoReply, FALSE, <<>>)
         IN IF off.call.outcome.kind = "raise"
            THEN [same EXCEPT !.boards = appended,
                              !.bound = bound + 1,
                              !.exc = Exception(off.call.outcome.val, "disable", appended),
                              !.led_to = "exception"]
            ELSE [same EXCEPT !.boards = appended,
                              !.bound = bound + 1,
                              !.wire = Append(sent, [to |-> addr, port |-> udp_port,
                                                     data |-> off.call.sent[1]]),
                              !.led_to = "board"]

\* before the call: the process may already hold a SOCBoard, whose socket is
\* bound to port 1240
Init ==
    /\ pc = "idle"
    /\ send_sock = "none"
    /\ receive_sock = "none"
    /\ discovered_boards = <<>>
    /\ bound1240 \in {0, 1}
    /\ now = 0
    /\ start_time = 0
    /\ heard = <<>>
    /\ wire = <<>>
    /\ exc = NoException
    /\ returned = <<>>
    /\ CodecIdle /\ InfoIdle /\ SessionIdle

\* lines 107-114: the two sockets; binding the receive socket can fail, and
\* that is outside the try block
OpenSockets ==
    /\ pc = "idle"
    /\ send_sock' = "open"
    /\ receive_sock' = "open"
    /\ \E bind_ok \in BOOLEAN :
          IF bind_ok
          THEN pc' = "try" /\ exc' = exc
          ELSE pc' = "raised" /\ exc' = Exception("OSError", "bind", discovered_boards)
    /\ UNCHANGED <<discovered_boards, bound1240, now, start_time, heard, wire, returned,
                   codecVars, infoVars, sessionVars>>

\* as if the enable were sent twice
SendEnableTwice ==
    /\ pc = "try"
    /\ \E sendto_ok \in BOOLEAN :
          IF sendto_ok
          THEN /\ wire' = wire \o <<[to |-> multicast_group, port |-> udp_port,
                                      data |-> EnableMessage],
                                     [to |-> multicast_group, port |-> udp_port,
                                      data |-> EnableMessage]>>
               /\ pc' = "clock"
               /\ exc' = exc
          ELSE /\ exc' = Exception("OSError", "enable", discovered_boards)
               /\ pc' = "except"
               /\ UNCHANGED wire
    /\ UNCHANGED <<send_sock, receive_sock, discovered_boards, bound1240, now, start_time,
                   heard, returned, codecVars, infoVars, sessionVars>>

\* lines 117-120: the heartbeat-enable, sent to the group
SendEnable ==
    /\ pc = "try"
    /\ \E sendto_ok \in BOOLEAN :
          IF sendto_ok
          THEN /\ wire' = Append(wire, [to |-> multicast_group, port |-> udp_port,
                                        data |-> EnableMessage])
               /\ pc' = "clock"
               /\ exc' = exc
          ELSE /\ exc' = Exception("OSError", "enable", discovered_boards)
               /\ pc' = "except"
               /\ UNCHANGED wire
    /\ UNCHANGED <<send_sock, receive_sock, discovered_boards, bound1240, now, start_time,
                   heard, returned, codecVars, infoVars, sessionVars>>

\* line 121: the listening window is measured from here
StartClock ==
    /\ pc = "clock"
    /\ start_time' = now
    /\ pc' = "while"
    /\ UNCHANGED <<send_sock, receive_sock, discovered_boards, bound1240, now, heard, wire,
                   exc, returned, codecVars, infoVars, sessionVars>>

\* line 123
LoopTest ==
    /\ pc = "while"
    /\ pc' = IF now - start_time < timeout THEN "recvfrom" ELSE "finally"
    /\ UNCHANGED <<send_sock, receive_sock, discovered_boards, bound1240, now, start_time,
                   heard, wire, exc, returned, codecVars, infoVars, sessionVars>>

Timeout == [addr |-> "", data |-> <<"timeout">>, led_to |-> "continue"]

\* as if the handler of socket.timeout were "break": a timeout ends the loop
ReceiveTimeoutBreaks ==
    /\ pc = "recvfrom"
    /\ \E wait \in TimeoutWaits : now' = now + wait
    /\ heard' = Append(heard, Timeout)
    /\ pc' = "finally"
    /\ UNCHANGED <<send_sock, receive_sock, discovered_boards, bound1240, start_time,
                   wire, exc, returned, codecVars, infoVars, sessionVars>>

\* lines 125, 139-140: no datagram within the socket timeout
ReceiveTimeout ==
    /\ pc = "recvfrom"
    /\ \E wait \in TimeoutWaits : now' = now + wait
    /\ heard' = Append(heard, Timeout)
    /\ pc' = "while"
    /\ UNCHANGED <<send_sock, receive_sock, discovered_boards, bound1240, start_time,
                   wire, exc, returned, codecVars, infoVars, sessionVars>>

\* line 125: recvfrom fails at socket level
ReceiveError ==
    /\ pc = "recvfrom"
    /\ exc' = Exception("OSError", "recvfrom", discovered_boards)
    /\ pc' = "except"
    /\ UNCHANGED <<send_sock, receive_sock, discovered_boards, bound1240, now, start_time,
                   heard, wire, returned, codecVars, infoVars, sessionVars>>

\* lines 125-138: a datagram arrives
ReceiveDatagram ==
    /\ pc = "recvfrom"
    /\ Cardinality({i \in 1..Len(heard) : heard[i] # Timeout}) < MaxDatagrams
    /\ \E addr \in BoardAddrs, data \in Heartbeats, wait \in Waits, sendto_ok \in BOOLEAN :
          LET h == handle_datagram(data, addr, sendto_ok, discovered_boards, bound1240, wire)
          IN /\ (~sendto_ok => h.exc.at = "disable")
             /\ now' = now + wait
             /\ heard' = Append(heard, [addr |-> addr, data |-> data, led_to |-> h.led_to])
             /\ discovered_boards' = h.boards
             /\ bound1240' = h.bound
             /\ wire' = h.wire
             /\ exc' = h.exc
             /\ pc' = IF h.exc = NoException THEN "while" ELSE "except"
    /\ UNCHANGED <<send_sock, receive_sock, start_time, returned, codecVars, infoVars,
                   sessionVars>>

\* as if the except clause did not match: the exception leaves discover_boards
\* (after the finally block)
ExceptionPropagates ==
    /\ pc = "except"
    /\ pc' = "raised"
    /\ send_sock' = "closed"
    /\ receive_sock' = "closed"
    /\ UNCHANGED <<discovered_boards, bound1240, now, start_time, heard, wire, exc,
                   returned, codecVars, infoVars, sessionVars>>

\* lines 142-143: except Exception
HandleException ==
    /\ pc = "except"
    /\ pc' = "finally"
    /\ UNCHANGED <<send_sock, receive_sock, discovered_boards, bound1240, now, start_time,
                   heard, wire, exc, returned, codecVars, infoVars, sessionVars>>

\* lines 145-150: finally, and the return; a board that was constructed but not
\* appended dies with the frame, and its socket with it
Finally ==
    /\ pc = "finally"
    /\ send_sock' = "closed"
    /\ receive_sock' = "closed"
    /\ returned' = discovered_boards
    /\ bound1240' = IF exc.at = "parse" THEN bound1240 - 1 ELSE bound1240
    /\ pc' = "done"
    /\ UNCHANGED <<discovered_boards, now, start_time, heard, wire, exc, codecVars,
                   infoVars, sessionVars>>

Next ==
    \/ OpenSockets
    \/ SendEnable
    \/ StartClock
    \/ LoopTest
    \/ ReceiveTimeout
    \/ ReceiveError
    \/ ReceiveDatagram
    \/ HandleException
    \/ Finally

Spec == Init /\ [][Next]_vars

\* the calling thread keeps running: a step that can be taken is taken, and a
\* blocking recvfrom ends with a datagram, a timeout or an error
FairSpec == Spec /\ WF_vars(Next)

----------------------------------------------------------------------------
(* Claims about the codec and the decoder                                  *)

\* the tokens of a reply: framing and terminator stripped, split on whitespace
Tokens(resp) == split(strip(resp, {"{", "}", NUL}))

\* C1: decoding the reply {GAPI SS 1 AA VVVV} that echoes a request, against the
\* same space and address, returns exactly the value VVVV.
C1_EchoDecodesToValue ==
    \A v \in Values :
        (parsed # Pending /\ response = Echo(expected[1], expected[2], v))
            => parsed = ReturnInt(v)

\* C3: a reply with a token count other than 5, a first token other than the
\* literal GAPI, a lenfield other than 1, or a space or address token other than
\* the expected one's two-digit hex, fails with InvalidResponseError.
C3_MismatchRejected ==
    LET t == Tokens(response)
        mismatch == \/ Len(t) # 5
                    \/ t[1] # GAPI
                    \/ t[2] # Hex2(expected[1])
                    \/ t[3] # <<"1">>
                    \/ t[4] # Hex2(expected[2])
    IN (parsed # Pending /\ mismatch) => parsed = Raise("InvalidResponseError")

\* C4: decoding any capability word completes with every enumerated field a
\* member of its enumeration and channel_count in 0..62.
C4_DecoderTotal ==
    board_info # Pending =>
        /\ board_info.kind = "attrs"
        /\ board_info.val.board_type \in Range(board_type_table)
        /\ board_info.val.codec \in Range(codec_table)
        /\ board_info.val.precision \in {"8 Bits", "10 Bits"}
        /\ board_info.val.fps \in Range(fps_table)
        /\ board_info.val.resolution \in Range(resolution_table)
        /\ board_info.val.module_fpga \in Range(module_fpga_table)
        /\ board_info.val.board_name \in Range(board_name_table)
        /\ board_info.val.channels \in 0..62

----------------------------------------------------------------------------
(* Claims about the register session                                       *)

\* a datagram that is not a well-formed reply for (space, address): not text, a
\* mismatch in count, literal, space, lenfield or address, or a value token
\* that is not four hexadecimal digits
Malformed(datagram, space, address) ==
    \/ ~Decodable(datagram)
    \/ LET t == Tokens(datagram)
       IN \/ Len(t) # 5
          \/ t[1] # GAPI
          \/ t[2] # Hex2(space)
          \/ t[3] # <<"1">>
          \/ t[4] # Hex2(address)
          \/ Len(t[5]) # 4
          \/ \E i \in 1..Len(t[5]) : t[5][i] \notin hexdigits

\* C2: verified_write_register sends a V request and returns the written value
\* when the reply echoes it for the same space and address, and fails with
\* WriteVerificationError reporting the written and the read-back value when the
\* reply carries another value.
C2_VerifiedWriteEcho ==
    (call.op = "verified_write_register" /\ call.sent # <<>>) =>
        /\ call.sent = <<create_udp_message(call.space, "V", call.address, call.value)>>
        /\ \A v \in ReplyValues :
              call.received = <<Echo(call.space, call.address, v)>> =>
                  IF v = call.value
                  THEN call.outcome = ReturnInt(call.value)
                  ELSE /\ call.outcome = Raise("WriteVerificationError")
                       /\ call.report = <<Hex4(call.value), Hex4(v)>>

\* C5: write_register with verify=false sends exactly one W request, then
\* consumes exactly one reply datagram and returns nothing, leaving no reply to
\* that write unread on the session.
C5_PlainWriteDrainsAck ==
    (call.op = "write_register" /\ ~call.verify /\ call.outcome = ReturnNone) =>
        /\ call.sent = <<create_udp_message(call.space, "W", call.address, call.value)>>
        /\ Len(call.received) = 1
        /\ ~call.unread

\* C10: read_register and verified_write_register fail with CommunicationError
\* when the send fails, the receive fails or no reply arrives in time, and with
\* InvalidResponseError when the reply that arrives is malformed or echoes
\* another space/address; none of these returns a value.
C10_ErrorKinds ==
    call.op \in {"read_register", "verified_write_register"} =>
        /\ call.sent = <<>> => call.outcome = Raise("CommunicationError")
        /\ (call.sent # <<>> /\ call.received = <<>>) =>
              call.outcome = Raise("CommunicationError")
        /\ (call.received # <<>> /\ Malformed(call.received[1], call.space, call.address)) =>
              call.outcome = Raise("InvalidResponseError")

----------------------------------------------------------------------------
(* Claims about discovery                                                  *)

\* b'{BEAT' in data
IsBeacon(datagram) == Contains(datagram, BEAT)

\* the heartbeat-disable write: W, space 0, address 0xB0, value 0x4321
DisableMessage == create_udp_message(0, "W", 176, 17185)

Listening == {"while", "recvfrom"}

BeaconsFrom(addr) ==
    {i \in 1..Len(heard) : heard[i].addr = addr /\ IsBeacon(heard[i].data)}

DisablesTo(addr) ==
    {k \in 1..Len(wire) : wire[k] = [to |-> addr, port |-> udp_port, data |-> DisableMessage]}

\* a beacon whose last token is a capability word in hexadecimal
WellFormedBeacon(datagram) ==
    /\ Decodable(datagram)
    /\ IsBeacon(datagram)
    /\ LET parts == split(strip(datagram, {"{", "}", CR, LF, SP}))
       IN parts # <<>> /\ IsHex(parts[Len(parts)])

\* C6: for every beacon received during the window, the returned list has a
\* handle for the sender's address with decoded capabilities, and one
\* heartbeat-disable write was sent to that address for it. Stated for the
\* scans in which no socket operation failed and for beacons that carry a
\* capability word.
C6_BeaconGetsHandleAndDisable ==
    (pc = "done" /\ exc.type \notin {"OSError", "CommunicationError"}) =>
        \A i \in 1..Len(heard) :
            WellFormedBeacon(heard[i].data) =>
                /\ \E j \in 1..Len(returned) : returned[j].ip_address = heard[i].addr
                /\ Cardinality(DisablesTo(heard[i].addr))
                      = Cardinality(BeaconsFrom(heard[i].addr))

C7_AfterTimeout ==
    (/\ heard # <<>>
     /\ heard[Len(heard)] = Timeout
     /\ exc = NoException
     /\ now - start_time < timeout) => pc \in Listening

C7_NormalExit ==
    (pc \in Listening /\ pc' = "finally") => now - start_time >= timeout

C7_BudgetLeft ==
    (pc = "while" /\ now - start_time < timeout) => pc' = "recvfrom"

\* C7: a receive timeout does not end Listening: after any number of timeouts
\* the scan is still listening while the elapsed time is below the budget, and
\* Listening is left through the normal path only once the budget is reached.
C7_TimeoutKeepsListening ==
    /\ []C7_AfterTimeout
    /\ [][C7_NormalExit /\ C7_BudgetLeft]_vars

\* listening again after a receive timeout, the budget not yet used up
C7_Witness ==
    /\ pc = "recvfrom"
    /\ heard # <<>>
    /\ heard[Len(heard)] = Timeout
    /\ now - start_time < timeout

SocketErrorPoints == {"enable", "recvfrom", "construct", "disable"}

C8_Caught ==
    exc.at \in SocketErrorPoints =>
        /\ pc \in {"except", "finally", "done"}
        /\ discovered_boards = exc.boards
        /\ pc = "done" => returned = exc.boards

C8_ScanEnds ==
    exc.at \in SocketErrorPoints => (heard' = heard /\ wire' = wire)

\* C8: a socket error raised while sending the heartbeat-enable, receiving,
\* constructing a session or sending a heartbeat-disable does not leave
\* discover_boards: the scan ends there and the call returns the boards
\* discovered before the error.
C8_SocketErrorsCaught ==
    /\ []C8_Caught
    /\ [][C8_ScanEnds]_vars

\* a scan that returned one board after a later socket error
C8_Witness ==
    /\ pc = "done"
    /\ exc.at \in SocketErrorPoints
    /\ exc.type \in {"OSError", "CommunicationError"}
    /\ returned # <<>>

\* C9: the returned list has at most one handle per board address, also when a
\* board's beacon is received more than once.
C9_OneHandlePerAddress ==
    pc = "done" =>
        \A i, j \in 1..Len(returned) :
            returned[i].ip_address = returned[j].ip_address => i = j

\* a scan that received two well-formed beacons of one board and returned it
C9_Witness ==
    /\ pc = "done"
    /\ returned # <<>>
    /\ \E i, j \in 1..Len(heard) :
          /\ i < j
          /\ heard[i].addr = returned[1].ip_address
          /\ heard[j].addr = returned[1].ip_address
          /\ heard[i].data = Beacon(1)
          /\ heard[j].data = Beacon(1)

----------------------------------------------------------------------------
(* Claims about sequences of register operations                           *)

\* C11: the value read_register returns, or verified_write_register confirms,
\* comes from the reply the board sent to that very request, never from a
\* datagram that was already queued on the session when the request was sent.
C11_NoStaleReply ==
    (call.op \in {"read_register", "verified_write_register"} /\ call.outcome.kind = "int")
        => ~call.stale

----------------------------------------------------------------------------
(* More claims about the codec and the decoder                             *)

\* C17: every value _parse_udp_response returns without raising, for a reply
\* that passes the token-count, GAPI, space, lenfield and address checks, is an
\* integer in 0..0xFFFF.
C17_ValueIs16Bit ==
    (parsed # Pending /\ parsed.kind # "raise")
        => (parsed.kind = "int" /\ parsed.val \in 0..65535)

\* the table entry a field value selects, by the enumerations of the design
Entry(field, index) ==
    CASE field = "board_type" ->
           (CASE index = 0 -> "Neither" [] index = 1 -> "Encoder"
              [] index = 2 -> "Decoder" [] index = 3 -> "Both")
      [] field = "codec" ->
           (CASE index = 0 -> "MPEG2" [] index = 1 -> "H264"
              [] index = 2 -> "H265" [] index = 3 -> "Reserved")
      [] field = "precision" ->
           (CASE index = 0 -> "8 Bits" [] index = 1 -> "10 Bits")
      [] field = "fps" ->
           (CASE index = 0 -> "Up to 30" [] index = 1 -> "Up to 60"
              [] index = 2 -> "Up to 120" [] index = 3 -> "Other")
      [] field = "resolution" ->
           (CASE index = 0 -> "Up to 1080p" [] index = 1 -> "Up to 4K"
              [] index = 2 -> "Up to 8K" [] index = 3 -> "Other")
      [] field = "module_fpga" ->
           (CASE index = 0 -> "None" [] index = 1 -> "Artix" [] index = 2 -> "Zynq"
              [] index = 3 -> "Arria10" [] index = 4 -> "Reserved")
      [] field = "board_name" ->
           (CASE index = 0 -> "S1000" [] index = 1 -> "VTR4000C" [] index = 2 -> "VoIP-X"
              [] index = 3 -> "VoIP-I" [] index = 4 -> "Reserved")

----------------------------------------------------------------------------
(* More claims about register operations                                   *)

\* C15 as stated: every register operation sends exactly one request datagram
\* and receives at most one reply datagram.
C15_ExactlyOneRequest ==
    call.op # "none" => (Len(call.sent) = 1 /\ Len(call.received) <= 1)

\* C15, amended: every register operation calls sendto once, without retry, and
\* receives at most one datagram, also when the receive times out or the reply
\* is invalid; it sends exactly one request datagram unless that sendto fails,
\* in which case it sends none, receives none and raises CommunicationError.
C15_AtMostOneRoundTrip ==
    call.op # "none" =>
        /\ call.sendto = 1
        /\ Len(call.sent) <= 1
        /\ Len(call.received) <= 1
        /\ call.sent = <<>> =>
              (call.received = <<>> /\ call.outcome = Raise("CommunicationError"))
        /\ call.sent # <<>> =>
              call.sent = <<create_udp_message(call.space,
                                               IF call.op = "read_register" THEN "R"
                                               ELSE IF call.verify \/ call.op = "verified_write_register"
                                                    THEN "V" ELSE "W",
                                               call.address, call.value)>>

\* a request was sent and its single receive timed out or brought an invalid reply
C15_Witness ==
    /\ call.op \in {"read_register", "verified_write_register"}
    /\ Len(call.sent) = 1
    /\ \/ call.received = <<>> /\ call.outcome = Raise("CommunicationError")
       \/ Len(call.received) = 1 /\ call.outcome = Raise("InvalidResponseError")

----------------------------------------------------------------------------
(* More claims about discovery                                             *)

\* the step receives a datagram that does not contain the beacon marker
NonBeaconArrives ==
    /\ Len(heard') = Len(heard) + 1
    /\ heard'[Len(heard')] # Timeout
    /\ ~IsBeacon(heard'[Len(heard')].data)

\* C12: a received datagram without the beacon marker, an empty or blank one
\* included, is ignored: the list of boards is unchanged, no heartbeat-disable
\* is sent and the scan goes on listening.
C12_NonBeaconIgnored ==
    [][NonBeaconArrives =>
          (discovered_boards' = discovered_boards /\ wire' = wire /\ pc' = "while")]_vars

EnableDatagram == [to |-> multicast_group, port |-> udp_port, data |-> EnableMessage]

EnablesSent == Cardinality({i \in 1..Len(wire) : wire[i] = EnableDatagram})

\* C18 as stated: in each invocation exactly one heartbeat-enable datagram is
\* sent to the group on the discovery port, before the first datagram is
\* received and before the listening window starts to be measured.
C18_ExactlyOneEnable ==
    /\ pc \in {"clock", "while", "recvfrom", "except", "finally", "done", "raised"}
          => (EnablesSent = 1 /\ wire[1] = EnableDatagram)
    /\ pc \in {"idle", "try", "clock"} => heard = <<>>

\* the invocation has not sent the enable: it has not come to the sendto yet, or
\* the setup of the sockets or the sendto itself failed
EnableNotSent == pc \in {"idle", "try"} \/ exc.at \in {"bind", "enable"}

\* C18, amended: an invocation sends at most one heartbeat-enable datagram; once
\* its sendto has succeeded exactly one is on the wire, addressed to the group on
\* the discovery port, and it is the first datagram the invocation sent; until
\* then nothing has been sent or received, and when the clock of the listening
\* window is about to be started the enable is sent and nothing is received yet.
\* An invocation whose socket setup or sendto fails sends none and never listens.
C18_EnableFirst ==
    /\ EnablesSent <= 1
    /\ ~EnableNotSent => (EnablesSent = 1 /\ wire[1] = EnableDatagram)
    /\ EnableNotSent => (wire = <<>> /\ heard = <<>>)
    /\ pc = "clock" => (wire = <<EnableDatagram>> /\ heard = <<>> /\ start_time = 0)

\* a scan that sent the enable, then heard a beacon and answered it
C18_Witness ==
    /\ pc = "done"
    /\ Len(wire) >= 2
    /\ wire[1] = EnableDatagram
    /\ \E i \in 1..Len(heard) : heard[i] # Timeout /\ IsBeacon(heard[i].data)

\* a beacon the decoder accepts: capability word 0x000001 or 0x0FC001
GoodBeacon(datagram) == datagram \in {Beacon(1), Beacon(1032193)}

BeaconSenders == {heard[i].addr : i \in {k \in 1..Len(heard) : heard[k] # Timeout}}

\* C13: a scan in which two or more boards with distinct addresses each send one
\* well-formed beacon returns a handle for each of them, each with its own bound
\* session socket. Stated for the scans in which nothing else was received and
\* no send or receive failed.
C13_EveryBoardGetsHandle ==
    (/\ pc = "done"
     /\ exc.at \notin {"enable", "recvfrom", "disable"}
     /\ \A i \in 1..Len(heard) : heard[i] = Timeout \/ GoodBeacon(heard[i].data)
     /\ \A a \in BeaconSenders : Cardinality(BeaconsFrom(a)) = 1
     /\ Cardinality(BeaconSenders) >= 2)
        => \A a \in BeaconSenders :
               \E j \in 1..Len(returned) : returned[j].ip_address = a

\* C14: both discovery sockets are closed on every exit of discover_boards, by
\* return or by exception.
C14_SocketsClosedOnExit ==
    pc \in {"done", "raised"} => (send_sock = "closed" /\ receive_sock = "closed")

\* C16: every invocation of discover_boards eventually reaches Done and returns,
\* whatever datagrams arrive, however many receives time out and whatever error
\* occurs.
C16_ReachesDone == <>(pc = "done")

\* every invocation that has its two sockets set up reaches Done and returns
C16_ScanReachesDone == (pc = "try") ~> (pc = "done")

====
